---- MODULE Spec2Model ----
(***************************************************************************)
(* A model of bdpy/dl/torch/torch.py: the hook-based FeatureExtractor      *)
(* (with its FeatureExtractorHandle) and the ImageDataset with its load    *)
(* pipeline and preload cache.                                             *)
(*                                                                         *)
(* Three specifications share the module:                                  *)
(*   Spec      ImageDataset: construction, then dataset[idx] accesses      *)
(*   SpecFE    FeatureExtractor: construction, run(x), outside forwards    *)
(*   SpecLoad  the load pipeline __load_image as a pure function           *)
(*                                                                         *)
(* Numbers.  Array elements after the scaling step are exact rationals     *)
(* with denominator 255; the model stores the numerator, so the element    *)
(* pixel / 255. * scale is stored as pixel * scale and an rgb_mean entry m *)
(* is subtracted as 255 * m.  Floating-point rounding is not modelled.     *)
(* Byte sizes are plain integers; preload_limit is counted in units of     *)
(* 1 / 1024^3 GiB, so preload_limit * (1024 ** 3) is the number itself.    *)
(***************************************************************************)
EXTENDS Integers, Sequences, FiniteSets, TLC

VARIABLES
    ds_args,    \* ImageDataset: the constructor's arguments
    ds_pc,      \* ImageDataset: "new", "ready" or "failed" (constructor raised)
    ds,         \* ImageDataset: the object's fields after construction
    ds_ret,     \* ImageDataset: what the last dataset[idx] did
    fe_args,    \* FeatureExtractor: the constructor's arguments
    fe_pc,      \* FeatureExtractor: "new", "failed", "idle", "forward", "collect"
    hooks,      \* encoder: how many forward hooks each sublayer carries
    outputs,    \* FeatureExtractorHandle.outputs
    cells,      \* encoder: the output tensor each sublayer writes
    npass,      \* number of forward passes of the encoder so far
    run_x,      \* the input of the run in progress
    fired,      \* sublayers whose hook fired in the last forward pass, in order
    fe_ret,     \* what the last run returned or raised
    first_ret,  \* the first FeatureMap a run returned, as returned
    li_in,      \* load pipeline: the decoded file and the options
    li_out      \* load pipeline: the result of __load_image

ds_vars == <<ds_args, ds_pc, ds, ds_ret>>
fe_vars == <<fe_args, fe_pc, hooks, outputs, cells, npass, run_x, fired, fe_ret, first_ret>>
li_vars == <<li_in, li_out>>
vars == <<ds_args, ds_pc, ds, ds_ret, fe_args, fe_pc, hooks, outputs, cells,
          npass, run_x, fired, fe_ret, first_ret, li_in, li_out>>

None == [none |-> TRUE]
Some(v) == [none |-> FALSE, v |-> v]

Ok(v) == [status |-> "ok", value |-> v]
Raise(e) == [status |-> e]

(***************************************************************************)
(* Bounds of the model.                                                    *)
(***************************************************************************)
MaxH == 4
MaxW == 2
MaxSeed == 1
MaxN == 3
MaxLimitUnits == 4
MaxLayers == 2
MaxTrace == 2
MaxPass == 2

(***************************************************************************)
(* Decoded images (PIL) and arrays (numpy).                                *)
(***************************************************************************)
NBands(mode) == CASE mode = "L" -> 1 [] mode = "RGB" -> 3 [] mode = "RGBA" -> 4

\* A decoded image of the given mode and size; every band of every pixel differs.
GenImage(mode, h, w, seed) ==
    [mode |-> mode, h |-> h, w |-> w,
     px |-> [p \in (0..(h-1)) \X (0..(w-1)) |->
               [k \in 1..NBands(mode) |->
                  IF k = 4 THEN (IF (p[1] + p[2] + seed) % 2 = 0 THEN 0 ELSE 255)
                  ELSE (seed * 37 + p[1] * 50 + p[2] * 20 + (k-1) * 7) % 256]]]

Indices(shp) ==
    IF Len(shp) = 2 THEN (0..(shp[1]-1)) \X (0..(shp[2]-1))
    ELSE (0..(shp[1]-1)) \X (0..(shp[2]-1)) \X (0..(shp[3]-1))

\* Pillow's 8-bit blend used by Image.paste with a mask
DIV255(a) == ((((a + 128) \div 256) + (a + 128)) \div 256)
BLEND8(mask, in1, in2) == DIV255(in1 * (255 - mask) + in2 * mask)

\* bg = Image.new('RGB', img.size, (255, 255, 255)); bg.paste(img, mask=img.split()[3])
paste_on_white(img) ==
    [mode |-> "RGB", h |-> img.h, w |-> img.w,
     px |-> [p \in DOMAIN img.px |->
               [k \in 1..3 |-> BLEND8(img.px[p][4], 255, img.px[p][k])]]]

\* np.asarray(img): (h, w) for a single band, (h, w, bands) otherwise
asarray(img) ==
    IF NBands(img.mode) = 1
    THEN [shape |-> <<img.h, img.w>>,
          at |-> [ix \in Indices(<<img.h, img.w>>) |-> img.px[ix][1]]]
    ELSE [shape |-> <<img.h, img.w, NBands(img.mode)>>,
          at |-> [ix \in Indices(<<img.h, img.w, NBands(img.mode)>>) |->
                    img.px[<<ix[1], ix[2]>>][ix[3] + 1]]]

\* np.stack([data, data, data], axis=2)
stack3(data) ==
    [shape |-> <<data.shape[1], data.shape[2], 3>>,
     at |-> [ix \in Indices(<<data.shape[1], data.shape[2], 3>>) |->
               data.at[<<ix[1], ix[2]>>]]]

s2d(ch) == CASE ch = "h" -> 0 [] ch = "w" -> 1 [] ch = "c" -> 2

\* data.transpose(axes): axis i of the result is axis axes[i] of data (0-based)
transpose(data, axes) ==
    LET shp == [i \in 1..3 |-> data.shape[axes[i] + 1]]
    IN [shape |-> shp,
        at |-> [ix \in Indices(shp) |->
                  data.at[[j \in 1..3 |-> ix[CHOOSE i \in 1..3 : axes[i] + 1 = j]]]]]

\* (data / 255.) * scale, a new array (elements kept as numerators over 255)
scale_intensity(data, scale) ==
    [shape |-> data.shape, at |-> [ix \in DOMAIN data.at |-> data.at[ix] * scale]]

\* Mutant: centre along the channel axis named by the shape string.
centering_by_channel_axis(data, shape, rgb_mean) ==
    LET ax == CHOOSE i \in 1..3 : shape[i] = "c"
    IN Ok([data EXCEPT !.at = [ix \in DOMAIN data.at |->
                                 data.at[ix] - 255 * rgb_mean[ix[ax] + 1]]])

\* data[0] -= rgb_mean[0]; data[1] -= rgb_mean[1]; data[2] -= rgb_mean[2]
centering(data, shape, rgb_mean) ==
    IF data.shape[1] < 3 THEN Raise("IndexError: index out of bounds for axis 0")
    ELSE Ok([data EXCEPT !.at = [ix \in DOMAIN data.at |->
                                   IF ix[1] \in 0..2
                                   THEN data.at[ix] - 255 * rgb_mean[ix[1] + 1]
                                   ELSE data.at[ix]]])

\* CMYK, RGBA --> RGB (the decoded files of the model are RGB, RGBA or L)
to_rgb_mode(img) == IF img.mode = "RGBA" THEN paste_on_white(img) ELSE img

\* Monotone to RGB
to_3d(data) == IF Len(data.shape) = 2 THEN stack3(data) ELSE data

\* ImageDataset.__load_image on a decoded file (file = None: Image.open raises)
load_image(file, o) ==
    IF file = None THEN Raise("DecodeError")
    ELSE LET data0 == to_3d(asarray(to_rgb_mode(file)))
             data1 == transpose(data0, <<s2d(o.shape[1]), s2d(o.shape[2]), s2d(o.shape[3])>>)
             data2 == scale_intensity(data1, o.scale)
         IN IF o.rgb_mean # None THEN centering(data2, o.shape, o.rgb_mean.v)
            ELSE Ok(data2)

\* data.size * data.itemsize of the float64 array __load_image returns
nbytes(data) == data.shape[1] * data.shape[2] * data.shape[3] * 8

(***************************************************************************)
(* SpecLoad: __load_image over bounded decoded images and options.         *)
(***************************************************************************)
Modes == {"RGB", "RGBA", "L"}
Shapes == {<<"c","h","w">>, <<"c","w","h">>, <<"h","w","c">>,
           <<"h","c","w">>, <<"w","h","c">>, <<"w","c","h">>}
Scales == {1, 2}
Means == {None, Some(<<1, 2, 3>>), Some(<<0, 1, 0>>)}

LoadOptions == [shape : Shapes, scale : Scales, rgb_mean : Means]
DecodedImages ==
    {GenImage(m, h, w, s) : m \in Modes, h \in 1..MaxH, w \in 1..MaxW, s \in 0..MaxSeed}

LI_Idle ==
    /\ ds_args = None /\ ds_pc = "off" /\ ds = None /\ ds_ret = None
    /\ fe_args = None /\ fe_pc = "off" /\ hooks = None /\ outputs = <<>>
    /\ cells = None /\ npass = 0 /\ run_x = "" /\ fired = <<>>
    /\ fe_ret = None /\ first_ret = None

InitLoad ==
    /\ li_in \in [file : DecodedImages \cup {None}, o : LoadOptions]
    /\ li_out = None
    /\ LI_Idle

LoadImage ==
    /\ li_out = None
    /\ li_out' = load_image(li_in.file, li_in.o)
    /\ UNCHANGED <<li_in, ds_vars, fe_vars>>

NextLoad == LoadImage

SpecLoad == InitLoad /\ [][NextLoad]_vars

(***************************************************************************)
(* ImageDataset.                                                           *)
(***************************************************************************)
\* A path is its sequence of components: <<"cat", "a.png">> is cat/a.png.
basename(p) == IF Len(p) = 0 THEN "" ELSE p[Len(p)]
dirname(p) == IF Len(p) = 0 THEN <<>> ELSE SubSeq(p, 1, Len(p) - 1)

\* The image files on disk, unchanged while the model runs; bad.png does not decode.
Paths == {<<"cat", "a.png">>, <<"dog", "b.png">>, <<"bad.png">>}
FileAt(p) ==
    CASE p = <<"cat", "a.png">> -> GenImage("RGB", 1, 1, 0)
      [] p = <<"dog", "b.png">> -> GenImage("RGBA", 3, 1, 1)
      [] OTHER -> None

ListIndexError == "IndexError: list index out of range"

\* Python's seq[idx]: negative indices count from the end
list_index(seq, idx) ==
    IF 0 <= idx /\ idx < Len(seq) THEN Ok(seq[idx + 1])
    ELSE IF idx < 0 /\ -Len(seq) <= idx THEN Ok(seq[Len(seq) + idx + 1])
    ELSE Raise(ListIndexError)

\* preload_size + data_size > preload_limit * (1024 ** 3); the default limit is np.inf
over_budget(preload_size, data_size, preload_limit) ==
    /\ ~preload_limit.inf
    /\ preload_size + data_size > preload_limit.v

\* Mutant: the label is recorded after the preload step, so the
\* `continue` of an overflowing image skips it.
init_step_label_last(a, i, st) ==
    LET imf == a.images[i + 1]
        lab == IF a.label_dirname THEN basename(dirname(imf)) ELSE basename(imf)
        r == load_image(FileAt(imf), a.o)
    IN IF ~st.preload THEN [st EXCEPT !.image_labels = Append(@, lab)]
       ELSE IF r.status # "ok" THEN [st EXCEPT !.err = r.status]
       ELSE IF over_budget(st.preload_size, nbytes(r.value), a.preload_limit)
            THEN [st EXCEPT !.preload = FALSE]
       ELSE [st EXCEPT !.data = (i :> r.value) @@ @,
                       !.preload_size = @ + nbytes(r.value),
                       !.image_labels = Append(@, lab)]

\* Mutant: an overflowing image is skipped and preloading goes on.
init_step_skip_one(a, i, st) ==
    LET imf == a.images[i + 1]
        lab == IF a.label_dirname THEN basename(dirname(imf)) ELSE basename(imf)
        st1 == [st EXCEPT !.image_labels = Append(@, lab)]
        r == load_image(FileAt(imf), a.o)
    IN IF ~st.preload THEN st1
       ELSE IF r.status # "ok" THEN [st1 EXCEPT !.err = r.status]
       ELSE IF over_budget(st.preload_size, nbytes(r.value), a.preload_limit)
            THEN st1
       ELSE [st1 EXCEPT !.data = (i :> r.value) @@ @,
                        !.preload_size = @ + nbytes(r.value)]

\* One iteration of `for i, imf in enumerate(images)` in ImageDataset.__init__.
\* st holds the locals preload, preload_size, image_labels and self.__data;
\* st.err is the exception __load_image raised, if any.
init_step(a, i, st) ==
    LET imf == a.images[i + 1]
        lab == IF a.label_dirname THEN basename(dirname(imf)) ELSE basename(imf)
        st1 == [st EXCEPT !.image_labels = Append(@, lab)]
        r == load_image(FileAt(imf), a.o)
    IN IF ~st.preload THEN st1
       ELSE IF r.status # "ok" THEN [st1 EXCEPT !.err = r.status]
       ELSE IF over_budget(st.preload_size, nbytes(r.value), a.preload_limit)
            THEN [st1 EXCEPT !.preload = FALSE]
       ELSE [st1 EXCEPT !.data = (i :> r.value) @@ @,
                        !.preload_size = @ + nbytes(r.value)]

RECURSIVE init_loop(_, _, _)
init_loop(a, i, st) ==
    IF i >= Len(a.images) \/ st.err # "" THEN st
    ELSE init_loop(a, i + 1, init_step(a, i, st))

\* The dataset object ImageDataset.__init__ leaves behind
init_object(a, st) ==
    [transform |-> a.transform, o |-> a.o,
     data |-> st.data,
     data_path |-> a.images,
     labels |-> IF a.labels # None THEN a.labels.v ELSE st.image_labels,
     n_sample |-> Len(a.images)]

\* The transform argument: absent (torch.Tensor(data), a copy), a callable that
\* builds a new value, or a callable that writes into its argument.  Both
\* callables of the model negate every element.
apply_transform(transform, data) ==
    IF transform = "none" THEN [type |-> "Tensor", shape |-> data.shape, at |-> data.at]
    ELSE [type |-> "Tensor", shape |-> data.shape,
          at |-> [ix \in DOMAIN data.at |-> 0 - data.at[ix]]]

\* What the array passed to the transform holds afterwards
after_transform(transform, data) ==
    IF transform = "inplace"
    THEN [data EXCEPT !.at = [ix \in DOMAIN data.at |-> 0 - data.at[ix]]]
    ELSE data

NoData == [type |-> "none"]

\* Mutant: a cached array is used without the index that keys it.
getitem_first_cached(d, idx) ==
    LET cached == idx \in DOMAIN d.data
        path == list_index(d.data_path, idx)
        loaded == IF cached THEN Ok(d.data[CHOOSE j \in DOMAIN d.data : TRUE])
                  ELSE IF path.status # "ok" THEN path
                  ELSE load_image(FileAt(path.value), d.o)
        label == list_index(d.labels, idx)
        ret(s, x, l) == [op |-> "getitem", idx |-> idx, status |-> s, data |-> x,
                         label |-> l, cached |-> cached, load_status |-> loaded.status]
    IN IF loaded.status # "ok"
       THEN [ret |-> ret(loaded.status, NoData, ""), data |-> d.data]
       ELSE [ret |-> IF label.status # "ok" THEN ret(label.status, NoData, "")
                     ELSE ret("ok", apply_transform(d.transform, loaded.value), label.value),
             data |-> d.data]

\* Mutant: an on-demand load is kept in the cache.
getitem_caching(d, idx) ==
    LET cached == idx \in DOMAIN d.data
        path == list_index(d.data_path, idx)
        loaded == IF cached THEN Ok(d.data[idx])
                  ELSE IF path.status # "ok" THEN path
                  ELSE load_image(FileAt(path.value), d.o)
        label == list_index(d.labels, idx)
        ret(s, x, l) == [op |-> "getitem", idx |-> idx, status |-> s, data |-> x,
                         label |-> l, cached |-> cached, load_status |-> loaded.status]
    IN IF loaded.status # "ok"
       THEN [ret |-> ret(loaded.status, NoData, ""), data |-> d.data]
       ELSE [ret |-> IF label.status # "ok" THEN ret(label.status, NoData, "")
                     ELSE ret("ok", apply_transform(d.transform, loaded.value), label.value),
             data |-> (idx :> after_transform(d.transform, loaded.value)) @@ d.data]

\* ImageDataset.__getitem__: the outcome and self.__data afterwards.  A cached
\* array is handed to the transform itself, not a copy of it.
getitem(d, idx) ==
    LET cached == idx \in DOMAIN d.data
        path == list_index(d.data_path, idx)
        loaded == IF cached THEN Ok(d.data[idx])
                  ELSE IF path.status # "ok" THEN path
                  ELSE load_image(FileAt(path.value), d.o)
        label == list_index(d.labels, idx)
        ret(s, x, l) == [op |-> "getitem", idx |-> idx, status |-> s, data |-> x,
                         label |-> l, cached |-> cached, load_status |-> loaded.status]
    IN IF loaded.status # "ok"
       THEN [ret |-> ret(loaded.status, NoData, ""), data |-> d.data]
       ELSE [ret |-> IF label.status # "ok" THEN ret(label.status, NoData, "")
                     ELSE ret("ok", apply_transform(d.transform, loaded.value), label.value),
             data |-> IF cached
                      THEN [d.data EXCEPT ![idx] = after_transform(d.transform, @)]
                      ELSE d.data]

\* Inputs of the constructor
GivenLabels(n) == [i \in 1..n |-> <<"label", i - 1>>]
DatasetOptions ==
    {[shape |-> <<"c","h","w">>, scale |-> 1, rgb_mean |-> None],
     [shape |-> <<"c","h","w">>, scale |-> 2, rgb_mean |-> Some(<<1, 2, 3>>)],
     [shape |-> <<"h","w","c">>, scale |-> 1, rgb_mean |-> Some(<<1, 2, 3>>)]}
Unlimited == [inf |-> TRUE, v |-> 0]
Limits == {[inf |-> FALSE, v |-> 24 * k] : k \in 0..MaxLimitUnits}
ImageLists == UNION {[1..n -> Paths] : n \in 0..MaxN}
NoDataset == [n_sample |-> -1]
NoRet == [op |-> "none"]

FE_Off ==
    /\ fe_args = None /\ fe_pc = "off" /\ hooks = None /\ outputs = <<>>
    /\ cells = None /\ npass = 0 /\ run_x = "" /\ fired = <<>>
    /\ fe_ret = None /\ first_ret = None
LI_Off == li_in = None /\ li_out = None

Init ==
    /\ ds_args \in [images : ImageLists,
                    labels : {None} \cup {Some(GivenLabels(n)) : n \in 0..MaxN},
                    label_dirname : BOOLEAN,
                    o : DatasetOptions,
                    transform : {"none", "pure", "inplace"},
                    preload : BOOLEAN,
                    preload_limit : Limits \cup {Unlimited}]
    /\ ds_args.preload \/ ds_args.preload_limit = Unlimited
    /\ ds_pc = "new"
    /\ ds = NoDataset
    /\ ds_ret = NoRet
    /\ FE_Off /\ LI_Off

\* dataset = ImageDataset(images, ...)
Construct ==
    /\ ds_pc = "new"
    /\ LET st == init_loop(ds_args, 0,
                           [preload |-> ds_args.preload, preload_size |-> 0,
                            image_labels |-> <<>>, data |-> <<>>, err |-> ""])
       IN IF st.err # ""
          THEN /\ ds_pc' = "failed"
               /\ ds_ret' = [op |-> "init", status |-> st.err]
               /\ ds' = ds
          ELSE /\ ds_pc' = "ready"
               /\ ds_ret' = [op |-> "init", status |-> "ok"]
               /\ ds' = init_object(ds_args, st)
    /\ UNCHANGED <<ds_args, fe_vars, li_vars>>

\* len(dataset)
DatasetLen ==
    /\ ds_pc = "ready"
    /\ ds_ret' = [op |-> "len", status |-> "ok", value |-> ds.n_sample]
    /\ UNCHANGED <<ds_args, ds_pc, ds, fe_vars, li_vars>>

\* dataset[idx]
GetItem ==
    /\ ds_pc = "ready"
    /\ \E idx \in -1..MaxN :
         LET g == getitem(ds, idx)
         IN /\ ds_ret' = g.ret
            /\ ds' = [ds EXCEPT !.data = g.data]
    /\ UNCHANGED <<ds_args, ds_pc, fe_vars, li_vars>>

Next == Construct \/ DatasetLen \/ GetItem

Spec == Init /\ [][Next]_vars

(***************************************************************************)
(* FeatureExtractor and FeatureExtractorHandle.                            *)
(*                                                                         *)
(* The encoder is a set of sublayers and, for an input, the sequence of    *)
(* sublayer executions its forward pass makes (net.trace; a net with       *)
(* net.cond leaves out the last execution for input "x2").  A sublayer     *)
(* carries a number of forward hooks; executing it calls each of them with *)
(* the sublayer's output tensor, cells[layer], which the sublayer writes   *)
(* anew on every execution.  encoder.to(device) is not modelled.           *)
(***************************************************************************)
Sublayers == {"conv1", "conv2"}
LayerNames == {"conv1", "conv2", "a"}
Inputs == {"x1", "x2"}

\* models._parse_layer_name(encoder, layer), which lives in another file of the
\* package: the sublayer of that path, or a failure when there is none
parse_layer_name(layer) ==
    IF layer \in Sublayers THEN Ok(layer) ELSE Raise("LayerNotFound")

\* layer = self.__layer_map[layer] when a mapping is given, then the lookup
resolve(a, layer) ==
    IF a.layer_mapping # None
    THEN IF layer \in DOMAIN a.layer_mapping.v
         THEN parse_layer_name(a.layer_mapping.v[layer])
         ELSE Raise("KeyError")
    ELSE parse_layer_name(layer)

\* Mutant: a name that does not resolve is passed over.
fe_init_step_skip_unresolved(a, i, st) ==
    LET r == resolve(a, a.layers[i + 1])
    IN IF r.status # "ok" THEN st
       ELSE [st EXCEPT !.hooks[r.value] = @ + 1]

\* One iteration of `for layer in self.__layers` in FeatureExtractor.__init__:
\* resolve the name and register the handle on the sublayer
fe_init_step(a, i, st) ==
    LET r == resolve(a, a.layers[i + 1])
    IN IF r.status # "ok" THEN [st EXCEPT !.err = r.status]
       ELSE [st EXCEPT !.hooks[r.value] = @ + 1]

RECURSIVE fe_init_loop(_, _, _)
fe_init_loop(a, i, st) ==
    IF i >= Len(a.layers) \/ st.err # "" THEN st
    ELSE fe_init_loop(a, i + 1, fe_init_step(a, i, st))

\* Mutant: the hook keeps module_out itself.
handle_call_no_clone(outs, layer, tensors) ==
    Append(outs, [kind |-> "alias", cell |-> layer, type |-> "Tensor"])

\* FeatureExtractorHandle.__call__: self.outputs.append(module_out.detach().clone())
handle_call(outs, layer, tensors) ==
    Append(outs, [kind |-> "copy", v |-> tensors[layer], type |-> "Tensor"])

\* Mutant: the buffer is not emptied.
clear_keep(outs) == outs

\* FeatureExtractorHandle.clear
clear(outs) == <<>>

RECURSIVE fire_hooks(_, _, _, _)
fire_hooks(outs, layer, tensors, n) ==
    IF n = 0 THEN outs
    ELSE fire_hooks(handle_call(outs, layer, tensors), layer, tensors, n - 1)

\* The k-th sublayer execution of a forward pass: the sublayer writes its
\* output and each of its hooks is called with it
exec_layer(st, trace, k, x, p, hk) ==
    LET layer == trace[k]
        visit == Cardinality({j \in 1..k : trace[j] = layer})
        tensors == [st.cells EXCEPT ![layer] =
                      [layer |-> layer, x |-> x, pass |-> p, visit |-> visit]]
    IN [cells |-> tensors,
        outputs |-> fire_hooks(st.outputs, layer, tensors, hk[layer]),
        fired |-> st.fired \o [j \in 1..hk[layer] |-> layer]]

\* The first n sublayer executions of encoder.forward(x)
RECURSIVE forward(_, _, _, _, _, _, _)
forward(st, trace, k, n, x, p, hk) ==
    IF k > n THEN st
    ELSE forward(exec_layer(st, trace, k, x, p, hk), trace, k + 1, n, x, p, hk)

EffTrace(net, x) ==
    IF net.cond /\ x = "x2" /\ Len(net.trace) > 0
    THEN SubSeq(net.trace, 1, Len(net.trace) - 1)
    ELSE net.trace

LastIndexOf(layers, name) ==
    CHOOSE i \in DOMAIN layers :
        layers[i] = name /\ \A j \in DOMAIN layers : layers[j] = name => j <= i

\* Mutant: the result is keyed by the concrete sublayer name.
collect_by_concrete_name(a, outs) ==
    IF Len(outs) < Len(a.layers) THEN Raise(ListIndexError)
    ELSE LET conc == [i \in DOMAIN a.layers |-> resolve(a, a.layers[i]).value]
         IN Ok([name \in {conc[i] : i \in DOMAIN conc} |-> outs[LastIndexOf(conc, name)]])

\* Mutant: a count that differs from the request is reported.
collect_checked(a, outs) ==
    IF Len(outs) # Len(a.layers) THEN Raise("ValueError")
    ELSE Ok([name \in {a.layers[i] : i \in DOMAIN a.layers} |->
               outs[LastIndexOf(a.layers, name)]])

\* features = {layer: self._extractor.outputs[i] for i, layer in enumerate(self.__layers)}
collect(a, outs) ==
    IF Len(outs) < Len(a.layers) THEN Raise(ListIndexError)
    ELSE Ok([name \in {a.layers[i] : i \in DOMAIN a.layers} |->
               outs[LastIndexOf(a.layers, name)]])

\* features = {k: v.cpu().detach().numpy() for k, v in features.items()}
detach_all(a, features) ==
    IF a.detach THEN [k \in DOMAIN features |-> [features[k] EXCEPT !.type = "ndarray"]]
    ELSE features

\* What a captured value reads as now
View(entry) == IF entry.kind = "copy" THEN entry.v ELSE cells[entry.cell]
ViewMap(m) == [k \in DOMAIN m |-> View(m[k])]

\* Inputs of the constructor
Traces == UNION {[1..n -> Sublayers] : n \in 0..MaxTrace}
Nets == [trace : Traces, cond : BOOLEAN]
LayerLists == UNION {[1..n -> LayerNames] : n \in 0..MaxLayers}
Mappings == {None,
             Some(("a" :> "conv2") @@ ("conv1" :> "conv1")),
             Some(("a" :> "conv9") @@ ("conv2" :> "conv1"))}
NoTensor == [layer |-> "", x |-> "", pass |-> 0, visit |-> 0]
NoFeRet == [op |-> "none"]

DS_Off == ds_args = None /\ ds_pc = "off" /\ ds = NoDataset /\ ds_ret = NoRet

InitFE ==
    /\ fe_args \in [net : Nets, layers : LayerLists, layer_mapping : Mappings,
                    detach : BOOLEAN]
    /\ fe_pc = "new"
    /\ hooks = [l \in Sublayers |-> 0]
    /\ outputs = <<>>
    /\ cells = [l \in Sublayers |-> NoTensor]
    /\ npass = 0
    /\ run_x = ""
    /\ fired = <<>>
    /\ fe_ret = NoFeRet
    /\ first_ret = None
    /\ DS_Off /\ LI_Off

\* extractor = FeatureExtractor(encoder, layers, layer_mapping, detach=...)
FE_Construct ==
    /\ fe_pc = "new"
    /\ LET st == fe_init_loop(fe_args, 0, [hooks |-> hooks, err |-> ""])
       IN /\ hooks' = st.hooks
          /\ IF st.err # ""
             THEN fe_pc' = "failed" /\ fe_ret' = [op |-> "init", status |-> st.err]
             ELSE fe_pc' = "idle" /\ fe_ret' = [op |-> "init", status |-> "ok"]
    /\ UNCHANGED <<fe_args, outputs, cells, npass, run_x, fired, first_ret, ds_vars, li_vars>>

\* run(x): self._extractor.clear() and the conversion of x
RunClear ==
    /\ fe_pc = "idle" /\ npass < MaxPass
    /\ \E x \in Inputs : run_x' = x
    /\ outputs' = clear(outputs)
    /\ fe_pc' = "forward"
    /\ UNCHANGED <<fe_args, hooks, cells, npass, fired, fe_ret, first_ret, ds_vars, li_vars>>

\* run(x): self._encoder.forward(xt), which may raise after any number of sublayers
RunForward ==
    /\ fe_pc = "forward"
    /\ LET trace == EffTrace(fe_args.net, run_x)
       IN \E n \in 0..Len(trace) :
            LET st == forward([cells |-> cells, outputs |-> outputs, fired |-> <<>>],
                              trace, 1, n, run_x, npass + 1, hooks)
            IN /\ cells' = st.cells
               /\ outputs' = st.outputs
               /\ fired' = st.fired
               /\ npass' = npass + 1
               /\ IF n = Len(trace)
                  THEN fe_pc' = "collect" /\ fe_ret' = fe_ret
                  ELSE /\ fe_pc' = "idle"
                       /\ fe_ret' = [op |-> "run", status |-> "RuntimeError", x |-> run_x,
                                     pass |-> npass + 1, features |-> <<>>,
                                     buffer |-> st.outputs, fired |-> st.fired]
    /\ UNCHANGED <<fe_args, hooks, run_x, first_ret, ds_vars, li_vars>>

\* run(x): build the FeatureMap from the buffer and return it
RunCollect ==
    /\ fe_pc = "collect"
    /\ LET c == collect(fe_args, outputs)
           features == IF c.status = "ok" THEN detach_all(fe_args, c.value) ELSE <<>>
       IN /\ fe_ret' = [op |-> "run", status |-> c.status, x |-> run_x, pass |-> npass,
                        features |-> features, buffer |-> outputs, fired |-> fired]
          /\ first_ret' = IF c.status = "ok" /\ first_ret = None
                          THEN [map |-> features, seen |-> ViewMap(features), pass |-> npass]
                          ELSE first_ret
    /\ fe_pc' = "idle"
    /\ UNCHANGED <<fe_args, hooks, outputs, cells, npass, run_x, fired, ds_vars, li_vars>>

\* A forward pass of the encoder made by other code: the hooks fire all the same
OutsideForward ==
    /\ fe_pc = "idle" /\ npass < MaxPass
    /\ \E x \in Inputs :
         LET trace == EffTrace(fe_args.net, x)
         IN \E n \in 0..Len(trace) :
              LET st == forward([cells |-> cells, outputs |-> outputs, fired |-> <<>>],
                                trace, 1, n, x, npass + 1, hooks)
              IN /\ cells' = st.cells
                 /\ outputs' = st.outputs
                 /\ fired' = st.fired
                 /\ npass' = npass + 1
    /\ UNCHANGED <<fe_args, fe_pc, hooks, run_x, fe_ret, first_ret, ds_vars, li_vars>>

NextFE == FE_Construct \/ RunClear \/ RunForward \/ RunCollect \/ OutsideForward

SpecFE == InitFE /\ [][NextFE]_vars

(***************************************************************************)
(* Properties of ImageDataset (specification Spec).                        *)
(***************************************************************************)
NPaths == Len(ds_args.images)
InRange(idx) == 0 <= idx /\ idx < NPaths
PathOf(i) == ds_args.images[i + 1]
\* The label the caller gave for index i or, without labels, the last component
\* of path i (the last component of its directory when label_dirname is set).
ExpectedLabel(i) ==
    IF ds_args.labels # None THEN ds_args.labels.v[i + 1]
    ELSE IF ~ds_args.label_dirname THEN PathOf(i)[Len(PathOf(i))]
    ELSE IF Len(PathOf(i)) >= 2 THEN PathOf(i)[Len(PathOf(i)) - 1]
    ELSE ""
LenAndLabels ==
    /\ ds_pc = "ready" => ds.n_sample = NPaths
    /\ ds_ret.op = "len" => ds_ret.value = NPaths
    /\ (ds_ret.op = "getitem" /\ InRange(ds_ret.idx)) =>
          /\ ds_ret.status # ListIndexError
          /\ ds_ret.status = "ok" => ds_ret.label = ExpectedLabel(ds_ret.idx)
LabelsCoverPaths == ds_args.labels = None \/ Len(ds_args.labels.v) >= NPaths

\* C1 as stated: len(dataset) is the number of input paths, and every access
\* dataset[i] with 0 <= i < len(dataset) is a valid index access (no indexing
\* error) that returns the given or derived label of path i, for every
\* construction, caller-supplied labels of any length included.
C1_AsStated == LenAndLabels

\* C1 amended: the same, for constructions whose labels are omitted or have at
\* least one entry per path.
C1_LenAndLabels == LabelsCoverPaths => LenAndLabels

C1_Witness ==
    /\ ds_ret.op = "getitem" /\ ds_ret.status = "ok" /\ InRange(ds_ret.idx)
    /\ ds_args.preload /\ ~ds_ret.cached /\ DOMAIN ds.data # {}
    /\ ds_args.labels = None /\ ds_args.label_dirname
    /\ ds_ret.label = "dog"

RECURSIVE SumBytes(_, _)
SumBytes(cache, S) ==
    IF S = {} THEN 0
    ELSE LET i == CHOOSE j \in S : TRUE
         IN nbytes(cache[i]) + SumBytes(cache, S \ {i})
CachedBytes == SumBytes(ds.data, DOMAIN ds.data)
DecodedBytes(i) == nbytes(load_image(FileAt(PathOf(i)), ds_args.o).value)

\* C2: after construction with preload=True the cached indices are a prefix
\* 0..k-1 of the index space that stops at the first image whose size would
\* push the running total above the budget, the cached bytes do not exceed the
\* budget, and an access to any index 0 <= i < len(dataset) gets its data: from
\* the cache when i is cached, by an on-demand load otherwise.
C2_PreloadPrefixWithinBudget ==
    /\ (ds_pc = "ready" /\ ds_args.preload) =>
          \E k \in 0..NPaths :
             /\ DOMAIN ds.data = 0..(k - 1)
             /\ ~ds_args.preload_limit.inf => CachedBytes <= ds_args.preload_limit.v
             /\ k < NPaths =>
                   /\ ~ds_args.preload_limit.inf
                   /\ CachedBytes + DecodedBytes(k) > ds_args.preload_limit.v
    /\ (ds_ret.op = "getitem" /\ InRange(ds_ret.idx) /\ ds_args.preload) =>
          /\ ds_ret.cached = (ds_ret.idx \in DOMAIN ds.data)
          /\ ds_ret.cached => ds_ret.load_status = "ok"
          /\ ~ds_ret.cached =>
                ds_ret.load_status = load_image(FileAt(PathOf(ds_ret.idx)), ds_args.o).status

\* An image after the overflowing one would have fitted, is not cached, and is read.
C2_Witness ==
    /\ ds_ret.op = "getitem" /\ ds_ret.status = "ok" /\ ds_args.preload
    /\ InRange(ds_ret.idx) /\ ~ds_ret.cached
    /\ ds_ret.idx > Cardinality(DOMAIN ds.data)
    /\ Cardinality(DOMAIN ds.data) > 0
    /\ CachedBytes + DecodedBytes(ds_ret.idx) <= ds_args.preload_limit.v

IsAccess == ds_pc = "ready" /\ ds_ret'.op = "getitem"

\* C7 as stated: no access dataset[idx] changes the cached indices, the cached
\* arrays, the path list, the label list or len(dataset).
C7_AsStated == [][IsAccess => ds' = ds]_vars

\* C7 amended: no access changes the set of cached indices, the path list, the
\* label list or len(dataset), whether it succeeds or fails, and an on-demand
\* load is not added to the cache; the cached arrays are unchanged as well
\* when transform is absent or does not write into its argument.
C7_AccessKeepsState ==
    [][IsAccess =>
         /\ DOMAIN ds'.data = DOMAIN ds.data
         /\ ds'.data_path = ds.data_path
         /\ ds'.labels = ds.labels
         /\ ds'.n_sample = ds.n_sample
         /\ ~ds_ret'.cached => ds_ret'.idx \notin DOMAIN ds'.data
         /\ ds.transform # "inplace" => ds' = ds]_vars

C7_Witness ==
    /\ ds_ret.op = "getitem" /\ ds_ret.status = "ok" /\ ~ds_ret.cached
    /\ ~ds_args.preload /\ ds.transform = "pure" /\ InRange(ds_ret.idx)

\* The same construction with preload=False
Unpreloaded ==
    LET a == [ds_args EXCEPT !.preload = FALSE]
    IN init_object(a, init_loop(a, 0, [preload |-> FALSE, preload_size |-> 0,
                                       image_labels |-> <<>>, data |-> <<>>, err |-> ""]))

\* C10: with a transform that does not write into its argument, every access
\* to an index 0 <= i < len(dataset) of a dataset built with preload=True has
\* the outcome (data, label, or the error) the same access has on the dataset
\* built from the same arguments with preload=False.
C10_PreloadInvisible ==
    (ds_ret.op = "getitem" /\ InRange(ds_ret.idx) /\ ds.transform # "inplace") =>
        LET ref == getitem(Unpreloaded, ds_ret.idx).ret
        IN /\ ds_ret.status = ref.status
           /\ ds_ret.data = ref.data
           /\ ds_ret.label = ref.label

C10_Witness ==
    /\ ds_ret.op = "getitem" /\ ds_ret.status = "ok" /\ ds_ret.cached
    /\ ds_ret.idx = 1 /\ ds.transform = "pure"
    /\ PathOf(0) # PathOf(1)

(***************************************************************************)
(* Properties of the load pipeline (specification SpecLoad).               *)
(***************************************************************************)
\* Band k of pixel (r, c) of the file as RGB: a grey value on all three bands,
\* white where an RGBA pixel is fully transparent.
SrcPixel(file, r, c, k) ==
    LET p == file.px[<<r, c>>]
    IN CASE file.mode = "L" -> p[1]
         [] file.mode = "RGBA" -> IF p[4] = 0 THEN 255 ELSE p[k + 1]
         [] OTHER -> p[k + 1]
AxisOf(shape, ch) == CHOOSE i \in 1..3 : shape[i] = ch
\* Element ix of the permuted, scaled array, before centering
Uncentered(ix) ==
    LET sh == li_in.o.shape
    IN SrcPixel(li_in.file, ix[AxisOf(sh, "h")], ix[AxisOf(sh, "w")], ix[AxisOf(sh, "c")])
         * li_in.o.scale
Centered == li_out # None /\ li_out.status = "ok" /\ li_in.o.rgb_mean # None

NLayers == Len(fe_args.layers)
\* The concrete sublayer name a requested name stands for
Concrete(name) ==
    IF fe_args.layer_mapping # None THEN fe_args.layer_mapping.v[name] ELSE name
Requested == [i \in DOMAIN fe_args.layers |-> Concrete(fe_args.layers[i])]
RunReturned == fe_ret.op = "run" /\ fe_ret.status = "ok"
\* The forward pass of the last run went through, so run reached the collection
RunCollected == fe_ret.op = "run" /\ fe_ret.status # "RuntimeError"
PassTrace == EffTrace(fe_args.net, run_x)
Times(seq, e) == Cardinality({j \in DOMAIN seq : seq[j] = e})

\* C3 as stated: after the forward pass of a run over N observed layers, each
\* executed once by the network in some order, the buffer holds exactly N
\* entries and entry i is the output of the i-th registered layer.
C3_AsStated ==
    (/\ fe_pc = "collect"
     /\ \A i, j \in DOMAIN Requested : Requested[i] = Requested[j] => i = j
     /\ \A i \in DOMAIN Requested : Times(PassTrace, Requested[i]) = 1) =>
        /\ Len(outputs) = NLayers
        /\ \A i \in DOMAIN Requested : View(outputs[i]).layer = Requested[i]

\* C4: when the hooks of the requested layers fire once each and in the
\* requested order, run returns a mapping whose keys are the requested logical
\* names and whose value for the i-th name is the output the i-th layer
\* produced in this pass; every run that returns has the keys of the first.
C4_RunMapsNamesToOutputs ==
    /\ (RunReturned /\ fe_ret.fired = Requested) =>
          /\ DOMAIN fe_ret.features = {fe_args.layers[i] : i \in DOMAIN fe_args.layers}
          /\ \A i \in DOMAIN fe_args.layers :
                LET v == View(fe_ret.features[fe_args.layers[i]])
                IN v.layer = Requested[i] /\ v.pass = fe_ret.pass /\ v.x = fe_ret.x
    /\ (RunReturned /\ first_ret # None) =>
          DOMAIN fe_ret.features = DOMAIN first_ret.map

\* A second run through a mapping: the keys are "a" and "conv1", not "conv2".
C4_Witness ==
    /\ RunReturned /\ fe_ret.fired = Requested
    /\ fe_args.layers = <<"a", "conv1">> /\ fe_args.layer_mapping # None
    /\ fe_ret.pass = 2 /\ first_ret.pass = 1

\* C5: the buffer is empty when the forward pass of a run starts, whatever
\* happened before; every value of a returned FeatureMap was captured in that
\* run's own pass; and the first FeatureMap a run returned reads the same
\* after every later operation.
C5_RunIsFresh ==
    /\ fe_pc = "forward" => outputs = <<>>
    /\ RunReturned =>
          \A k \in DOMAIN fe_ret.features :
             /\ View(fe_ret.features[k]).pass = fe_ret.pass
             /\ View(fe_ret.features[k]).x = fe_ret.x
    /\ first_ret # None => ViewMap(first_ret.map) = first_ret.seen

\* A run that returned after an earlier pass of the encoder (an outside forward
\* or a failed run).
C5_Witness ==
    /\ RunReturned /\ fe_ret.pass = 2 /\ first_ret.pass = 2
    /\ fe_ret.x = "x2" /\ NLayers = 2
    /\ cells # [l \in Sublayers |-> NoTensor]

Positional ==
    \A i \in DOMAIN fe_args.layers :
       (\A j \in DOMAIN fe_args.layers : fe_args.layers[j] = fe_args.layers[i] => j <= i) =>
          View(fe_ret.features[fe_args.layers[i]]) = View(fe_ret.buffer[i])

\* C6 as stated: when the number of hook firings of the pass differs from the
\* number of requested layers, more or fewer, run raises nothing and returns
\* the positional mapping.
C6_AsStated ==
    (RunCollected /\ Len(fe_ret.fired) # NLayers) =>
        (fe_ret.status = "ok" /\ Positional)

\* C6 amended: with more firings than requested layers run raises nothing and
\* returns the positional mapping of the first entries; with fewer firings the
\* lookup outputs[i] raises an IndexError and run returns nothing.
C6_MismatchUndetected ==
    /\ (RunCollected /\ Len(fe_ret.fired) > NLayers) =>
          (fe_ret.status = "ok" /\ Positional)
    /\ (RunCollected /\ Len(fe_ret.fired) < NLayers) =>
          (fe_ret.status = ListIndexError /\ fe_ret.features = <<>>)

\* A layer visited twice: the second capture is in the buffer and not in the result.
C6_Witness ==
    /\ RunReturned /\ Len(fe_ret.fired) > NLayers /\ NLayers > 0
    /\ View(fe_ret.features[fe_args.layers[1]]) # View(fe_ret.buffer[Len(fe_ret.buffer)])

Unresolvable ==
    \E i \in DOMAIN fe_args.layers :
       IF fe_args.layer_mapping # None
       THEN \/ fe_args.layers[i] \notin DOMAIN fe_args.layer_mapping.v
            \/ fe_args.layer_mapping.v[fe_args.layers[i]] \notin Sublayers
       ELSE fe_args.layers[i] \notin Sublayers

\* C8: when some requested name does not resolve to a sublayer (through the
\* mapping when one is given, directly otherwise) the constructor raises: no
\* extractor exists and no run is ever performed.
C8_UnresolvedNameFailsConstruction ==
    (Unresolvable /\ fe_pc # "new") =>
        /\ fe_pc = "failed"
        /\ fe_ret.op = "init" /\ fe_ret.status # "ok"
        /\ npass = 0 /\ outputs = <<>>

\* The second name is missing from the mapping; the first is already hooked.
C8_Witness ==
    /\ fe_pc = "failed" /\ fe_ret.status = "KeyError"
    /\ hooks["conv1"] = 1 /\ NLayers = 2

====
